---- MODULE Spec2Model ----
(***************************************************************************)
(* Loyalty-points ledger of src/app.py: the cashier endpoint               *)
(* /create-transaction (earn), /redeem (redeem inside a store transaction) *)
(* and /run-expiry (bulk expiry sweep), over the document collections      *)
(* customers, point_events, transactions, counters and redemptions.        *)
(*                                                                         *)
(* Every store round trip of a handler is one step of the worker that runs *)
(* the handler, so that handlers of different requests interleave exactly  *)
(* where the code leaves the store between two calls.  Timestamps that no  *)
(* decision of the code reads (created_at, last_visit, redeemed_at, ...)   *)
(* are left out of the documents; expires_at is kept.                      *)
(***************************************************************************)
EXTENDS Integers, Sequences, FiniteSets, TLC

\* ------------------------------------------------------------------ bounds
MaxTx == 3          \* transaction ids a cashier may send: 1..MaxTx
MaxSeqOps == 4      \* requests handled in a behaviour of SpecSeq
MaxTxnOps == 4      \* requests handled in a behaviour of SpecTxn
MaxOps == 3         \* requests handled in a behaviour of Spec
MaxSweepOps == 5    \* requests handled in a behaviour of SpecSweepTwice
MaxCheckOps == 3    \* requests handled in a behaviour of SpecCheck
MaxNameOps == 3     \* requests handled in a behaviour of SpecName
MaxSignupOps == 3   \* requests handled in a behaviour of SpecSignup
MaxSendOps == 4     \* messages sent in a behaviour of SpecSend
MaxTime == 1        \* the clock runs 0..MaxTime
MaxPoints == 2      \* points_earned and points_to_redeem are at most this
QueryLimit == 2     \* .limit(200) of the redeem query, scaled down
PageSize == 2       \* page_size = 400 of the sweep, scaled down
ExpiryDays == 1     \* points_expiry_days of the restaurant (default 90), scaled down

\* ------------------------------------------------------------ input sets
Workers == {"w1", "w2"}
TxIds == 1..MaxTx
RESTAURANT_ID == "rest_001"
CustKeys == {<<"p1", RESTAURANT_ID>>, <<"p2", RESTAURANT_ID>>}
PointVals == {-1, 0, MaxPoints}     \* points_earned as sent by the cashier
BillAmount == 10                    \* a bill_amount that is a number

\* A JSON value of a request body: absent (or null, or ""), a text that is
\* not a number, or a number.
Missing == [kind |-> "missing"]
Text == [kind |-> "text"]
Num(n) == [kind |-> "number", val |-> n]

\* The bodies sent to /create-transaction: the well-formed ones, and bodies in
\* which one field (or two) is absent or is not a number.
GoodEarnRequests ==
    [transaction_id : TxIds, customer_phone : {k[1] : k \in CustKeys},
     bill_amount : {Num(BillAmount)}, points_earned : {Num(n) : n \in PointVals},
     customer_name : {""}, cashier_name : {""}]

BadEarnRequests ==
    LET ok == [transaction_id |-> 1, customer_phone |-> "p1",
               bill_amount |-> Num(BillAmount), points_earned |-> Num(MaxPoints),
               customer_name |-> "", cashier_name |-> ""]
    IN  {[ok EXCEPT !.transaction_id = 0], [ok EXCEPT !.customer_phone = ""]}
            \cup {[ok EXCEPT !.bill_amount = v] : v \in {Missing, Text}}
            \cup {[ok EXCEPT !.points_earned = v] : v \in {Missing, Text}}
            \cup {[ok EXCEPT !.bill_amount = Text, !.points_earned = Missing]}

EarnRequests == GoodEarnRequests \cup BadEarnRequests

\* Bodies for one customer that carry a customer_name (absent, blank, or a name
\* with a leading space) and a cashier_name, and bodies that are refused.
NamedEarnRequests ==
    [transaction_id : {1, 2}, customer_phone : {"p1"},
     bill_amount : {Num(BillAmount)}, points_earned : {Num(MaxPoints)},
     customer_name : {"", " ", " Asha"}, cashier_name : {"", "Ravi"}]
        \cup BadEarnRequests

ActiveCode == "SAVE10"              \* the signup code the admin has set
MessageTexts == {"SAVE10", " save10", "hello"}    \* bodies of WhatsApp messages
RedeemVals == (-1)..MaxPoints       \* points_to_redeem as sent (0 when missing)

\* --------------------------------------------------------------- helpers
Min(a, b) == IF a <= b THEN a ELSE b

NoDoc == [exists |-> FALSE]
NoLoc == [op |-> "none"]
NoResult == [status |-> "none", op |-> "none"]
NoCursor == [set |-> FALSE]

\* f"{phone}_{restaurant_id}"
CustomerId(phone, restaurant_id) == phone \o "_" \o restaurant_id

CustomerIds == {CustomerId(k[1], k[2]) : k \in CustKeys}

\* f"pe_{transaction_id}"
PointEventId(transaction_id) == "pe_" \o ToString(transaction_id)

RECURSIVE ZeroPad4(_)
ZeroPad4(s) == IF Len(s) >= 4 THEN s ELSE ZeroPad4("0" \o s)

\* f"R{new_count:04d}"
RedemptionId(new_count) == "R" \o ZeroPad4(ToString(new_count))

VARIABLES
    customers,      \* customers/<phone>_<restaurant>: the customer aggregate
    point_events,   \* point_events/pe_<transaction_id>, indexed by transaction id
    transactions,   \* transactions/<transaction_id>
    counter,        \* counters/redemption_counter
    redemptions,    \* redemptions/<redemption_id>
    restaurant_codes,   \* restaurant_codes/<restaurant_id>: the signup code
    clock,          \* datetime.now(), in days
    pc,             \* where each worker is in the handler it runs
    loc,            \* the handler's local variables
    result,         \* the response of the last handler that answered
    quota,          \* requests the server will still take
    synth           \* some redeem has written a synthetic_balance_correction

store == <<customers, point_events, transactions, counter, redemptions, restaurant_codes>>
count == <<quota>>
vars == <<customers, point_events, transactions, counter, redemptions,
          restaurant_codes, clock,
          pc, loc, result, quota, synth>>

\* ---------------------------------------------------------------- queries
\* order_by('expires_at'); documents with equal expires_at come in document-id
\* order, which for pe_<n> is the order of n.
Before(t, u) ==
    \/ point_events[t].expires_at < point_events[u].expires_at
    \/ /\ point_events[t].expires_at = point_events[u].expires_at
       /\ t <= u

RECURSIVE OrderByExpiry(_)
OrderByExpiry(S) ==
    IF S = {} THEN <<>>
    ELSE LET m == CHOOSE t \in S : \A u \in S : Before(t, u)
         IN <<m>> \o OrderByExpiry(S \ {m})

Limit(seq, n) == SubSeq(seq, 1, Min(n, Len(seq)))

Snapshots(ids) == [i \in 1..Len(ids) |-> [id |-> ids[i], data |-> point_events[ids[i]]]]

\* Mutant: the query also leaves out the events that are past due.
LiveEvents_Unexpired(phone, restaurant_id) ==
    {t \in TxIds : /\ point_events[t].exists
                   /\ point_events[t].customer_phone = phone
                   /\ point_events[t].restaurant_id = restaurant_id
                   /\ point_events[t].status \in {"active", "partial"}
                   /\ point_events[t].expires_at > clock}

\* pe_query of _txn_redeem: the customer's active/partial events, soonest
\* expiry first, at most QueryLimit of them.
LiveEvents(phone, restaurant_id) ==
    {t \in TxIds : /\ point_events[t].exists
                   /\ point_events[t].customer_phone = phone
                   /\ point_events[t].restaurant_id = restaurant_id
                   /\ point_events[t].status \in {"active", "partial"}}

RedeemQuery(phone, restaurant_id) ==
    Snapshots(Limit(OrderByExpiry(LiveEvents(phone, restaurant_id)), QueryLimit))

\* Mutant: the next page starts at the cursor document, not after it.
AfterCursor_Inclusive(t, last_doc) ==
    \/ ~last_doc.set
    \/ point_events[t].expires_at > last_doc.expires_at
    \/ /\ point_events[t].expires_at = last_doc.expires_at
       /\ t >= last_doc.id

\* q.start_after(last_doc): the documents that follow the cursor document in
\* the order of the query (expires_at, then document id).
AfterCursor(t, last_doc) ==
    \/ ~last_doc.set
    \/ point_events[t].expires_at > last_doc.expires_at
    \/ /\ point_events[t].expires_at = last_doc.expires_at
       /\ t > last_doc.id

\* q of run_expiry: the due events after the cursor, at most PageSize of them.
ExpiryQuery(now, last_doc) ==
    Snapshots(Limit(OrderByExpiry({t \in TxIds : /\ point_events[t].exists
                                                  /\ point_events[t].expires_at <= now
                                                  /\ AfterCursor(t, last_doc)}),
                    PageSize))

\* ------------------------------------------------- transaction read sets
\* A redeem transaction has the customer document in its read set once it has
\* read it, and the counter document once it has read that.  A committed write
\* to a document in the read set of a running transaction makes its commit fail.
\* Mutant: the customer is read outside the transaction.
HasReadCustomer_Never(q, cid) == FALSE

HasReadCustomer(q, cid) ==
    /\ pc[q] \in {"r_counter", "r_events", "r_commit"}
    /\ CustomerId(loc[q].customer_phone, loc[q].restaurant_id) = cid

\* Mutant: the counter is read outside the transaction.
HasReadCounter_Never(q) == FALSE

HasReadCounter(q) == pc[q] \in {"r_events", "r_commit"}

\* loc after worker p took a step to newloc that wrote the customer documents
\* cids and, with ctr, the counter document.
Written(p, newloc, cids, ctr) ==
    [q \in Workers |->
        IF q = p THEN newloc
        ELSE IF (\E cid \in cids : HasReadCustomer(q, cid)) \/ (ctr /\ HasReadCounter(q))
             THEN [loc[q] EXCEPT !.stale = TRUE]
             ELSE loc[q]]

Finish(p, res) ==
    /\ pc' = [pc EXCEPT ![p] = "idle"]
    /\ result' = res

\* ------------------------------------------------------------------- Init
\* The empty store, and a server that takes cap requests.
InitOf(cap) ==
    /\ customers = [cid \in CustomerIds |-> NoDoc]
    /\ point_events = [t \in TxIds |-> NoDoc]
    /\ transactions = [t \in TxIds |-> NoDoc]
    /\ counter = NoDoc
    /\ redemptions = <<>>
    /\ restaurant_codes = [exists |-> TRUE, active_code |-> ActiveCode, total_signups |-> 0]
    /\ clock = 0
    /\ pc = [p \in Workers |-> "idle"]
    /\ loc = [p \in Workers |-> NoLoc]
    /\ result = NoResult
    /\ quota = cap
    /\ synth = FALSE

\* ------------------------------------------------------------------ clock
Tick ==
    /\ clock < MaxTime
    /\ clock' = clock + 1
    /\ UNCHANGED <<store, pc, loc, result, count, synth>>

\* ------------------------------------------------------------------- Earn
\* str.strip() on the names a body carries.
Strip(s) == IF s = " " THEN "" ELSE IF s = " Asha" THEN "Asha" ELSE s

\* customer_name = data.get('customer_name', '').strip()
\*                     or data.get('cashier_name', '').strip()
SuppliedName(req) ==
    IF Strip(req.customer_name) # "" THEN Strip(req.customer_name)
    ELSE Strip(req.cashier_name)

\* Python's truth value of a JSON value: None, "" and 0 are false.
Truthy(v) == IF v.kind = "number" THEN v.val # 0 ELSE v.kind = "text"

\* not all([transaction_id, customer_phone, bill_amount, points_earned]);
\* clean_phone_number gives None for an absent phone.
EarnAccepts(req) ==
    /\ req.transaction_id # 0
    /\ req.customer_phone # ""
    /\ Truthy(req.bill_amount)
    /\ Truthy(req.points_earned)

\* create_transaction up to the first write: the 400 answer.
Earn_Reject(p, req) ==
    /\ pc[p] = "idle"
    /\ quota > 0
    /\ ~EarnAccepts(req)
    /\ Finish(p, [status |-> "error", op |-> "earn", code |-> 400, error |-> "Missing required fields"])
    /\ quota' = quota - 1
    /\ UNCHANGED <<store, clock, loc, synth>>

\* Mutant: bill_amount is stored as sent, only points_earned is converted.
ConversionRaises_PointsOnly(req) == req.points_earned.kind # "number"

\* float(bill_amount) and int(points_earned) raise ValueError on a text that
\* is not a number.  They are evaluated while the document for transactions/<id>
\* is built, that is before its set() is called.
ConversionRaises(req) ==
    \/ req.bill_amount.kind # "number"
    \/ req.points_earned.kind # "number"

\* create_transaction: the exception is caught by the handler, the 500 answer.
Earn_Raise(p, req) ==
    /\ pc[p] = "idle"
    /\ quota > 0
    /\ EarnAccepts(req)
    /\ ConversionRaises(req)
    /\ Finish(p, [status |-> "error", op |-> "earn", code |-> 500, error |-> "ValueError"])
    /\ quota' = quota - 1
    /\ UNCHANGED <<store, clock, loc, synth>>

\* create_transaction: validation passed, transactions/<id> is set.
Earn_SaveTransaction(p, req) ==
    /\ pc[p] = "idle"
    /\ quota > 0
    /\ EarnAccepts(req)
    /\ ~ConversionRaises(req)
    /\ transactions' = [transactions EXCEPT ![req.transaction_id] =
            [exists |-> TRUE, customer_phone |-> req.customer_phone,
             restaurant_id |-> RESTAURANT_ID,
             points_earned |-> req.points_earned.val]]
    /\ pc' = [pc EXCEPT ![p] = "e_point_event"]
    /\ loc' = [loc EXCEPT ![p] =
            [op |-> "earn", transaction_id |-> req.transaction_id,
             customer_phone |-> req.customer_phone, restaurant_id |-> RESTAURANT_ID,
             points_earned |-> req.points_earned.val, now |-> clock,
             customer_name |-> SuppliedName(req)]]
    /\ result' = NoResult
    /\ quota' = quota - 1
    /\ UNCHANGED <<customers, point_events, counter, redemptions, restaurant_codes, clock, synth>>

\* The document create_transaction sets at point_events/pe_<transaction_id>.
NewPointEvent(L, expires_at) ==
    [exists |-> TRUE,
     points |-> L.points_earned,
     remaining |-> L.points_earned,
     customer_phone |-> L.customer_phone,
     restaurant_id |-> L.restaurant_id,
     expires_at |-> expires_at,
     expired |-> FALSE,
     status |-> "active",
     transaction_id |-> L.transaction_id]

\* expires_at = now + timedelta(days=expiry_days)
ExpiresAt(now, expiry_days) == now + expiry_days

\* create_transaction: the restaurant's expiry days are read and the point
\* event is set (a set replaces the whole document).
Earn_CreatePointEvent(p) ==
    /\ pc[p] = "e_point_event"
    /\ LET L == loc[p]
           expires_at == ExpiresAt(L.now, ExpiryDays)
       IN /\ point_events' = [point_events EXCEPT ![L.transaction_id] =
                                  NewPointEvent(L, expires_at)]
          /\ loc' = [loc EXCEPT ![p] =
                [op |-> "earn", transaction_id |-> L.transaction_id,
                 customer_phone |-> L.customer_phone, restaurant_id |-> L.restaurant_id,
                 points_earned |-> L.points_earned, now |-> L.now,
                 customer_name |-> L.customer_name,
                 expires_at |-> expires_at]]
    /\ pc' = [pc EXCEPT ![p] = "e_customer_get"]
    /\ UNCHANGED <<customers, transactions, counter, redemptions, restaurant_codes, clock, result,
                   count, synth>>

\* create_transaction: customer_snap = customer_ref.get()
Earn_ReadCustomer(p) ==
    /\ pc[p] = "e_customer_get"
    /\ LET L == loc[p]
       IN loc' = [loc EXCEPT ![p] =
                [op |-> "earn", transaction_id |-> L.transaction_id,
                 customer_phone |-> L.customer_phone, restaurant_id |-> L.restaurant_id,
                 points_earned |-> L.points_earned, now |-> L.now,
                 customer_name |-> L.customer_name,
                 expires_at |-> L.expires_at,
                 customer_snap |-> customers[CustomerId(L.customer_phone, L.restaurant_id)]]]
    /\ pc' = [pc EXCEPT ![p] = "e_customer_put"]
    /\ UNCHANGED <<store, clock, result, count, synth>>

\* Mutant: the update of an existing customer leaves total_points_earned alone.
EarnedCustomer_NoTotal(current, customer_snap, points_earned, customer_name) ==
    IF customer_snap.exists
    THEN [current EXCEPT
            !.points_balance = customer_snap.points_balance + points_earned,
            !.total_visits = customer_snap.total_visits + 1,
            !.customer_name = IF customer_name # "" /\ customer_snap.customer_name = ""
                              THEN customer_name ELSE @]
    ELSE [exists |-> TRUE,
          customer_name |-> customer_name,
          points_balance |-> points_earned,
          total_points_earned |-> points_earned,
          total_visits |-> 1,
          total_points_redeemed |-> 0]

\* The customer document after create_transaction's update (the customer was
\* read as existing: the three counters are overwritten from the values read)
\* or set (read as absent: the whole document is replaced).  The update
\* carries customer_name only for a name supplied while the name read is empty.
EarnedCustomer(current, customer_snap, points_earned, customer_name) ==
    IF customer_snap.exists
    THEN [current EXCEPT
            !.points_balance = customer_snap.points_balance + points_earned,
            !.total_points_earned = customer_snap.total_points_earned + points_earned,
            !.total_visits = customer_snap.total_visits + 1,
            !.customer_name = IF customer_name # "" /\ customer_snap.customer_name = ""
                              THEN customer_name ELSE @]
    ELSE [exists |-> TRUE,
          customer_name |-> customer_name,
          points_balance |-> points_earned,
          total_points_earned |-> points_earned,
          total_visits |-> 1,
          total_points_redeemed |-> 0]

\* create_transaction: customer_ref.update(...) or customer_ref.set(...), then
\* the 200 answer.
Earn_WriteCustomer(p) ==
    /\ pc[p] = "e_customer_put"
    /\ LET L == loc[p]
           cid == CustomerId(L.customer_phone, L.restaurant_id)
       IN /\ customers' = [customers EXCEPT ![cid] =
                              EarnedCustomer(customers[cid], L.customer_snap, L.points_earned,
                                             L.customer_name)]
          /\ loc' = Written(p, NoLoc, {cid}, FALSE)
          /\ Finish(p, [status |-> "ok", op |-> "earn",
                        transaction_id |-> L.transaction_id,
                        point_event_id |-> PointEventId(L.transaction_id),
                        expires_at |-> L.expires_at])
    /\ UNCHANGED <<point_events, transactions, counter, redemptions, restaurant_codes, clock,
                   count, synth>>

\* ----------------------------------------------------------------- Redeem
\* Mutant: only a negative amount is refused.
RedeemAccepts_Zero(points_to_redeem) == points_to_redeem >= 0

\* if points_to_redeem <= 0: the 400 answer, before any transaction starts.
RedeemAccepts(points_to_redeem) == points_to_redeem > 0

Redeem_Reject(p, points_to_redeem) ==
    /\ pc[p] = "idle"
    /\ quota > 0
    /\ ~RedeemAccepts(points_to_redeem)
    /\ Finish(p, [status |-> "error", op |-> "redeem", code |-> 400,
                   error |-> "points_to_redeem must be > 0"])
    /\ quota' = quota - 1
    /\ UNCHANGED <<store, clock, loc, synth>>

\* The locals of _txn_redeem at the start of an attempt.
RedeemLocals(customer_phone, restaurant_id, points_to_redeem) ==
    [op |-> "redeem", customer_phone |-> customer_phone, restaurant_id |-> restaurant_id,
     points_to_redeem |-> points_to_redeem, stale |-> FALSE, current_balance |-> 0,
     counter_exists |-> FALSE, new_count |-> 0, point_events_to_update |-> <<>>]

\* redeem_points: validation passed, transaction = db.transaction().
Redeem_Begin(p, key, points_to_redeem) ==
    /\ pc[p] = "idle"
    /\ quota > 0
    /\ RedeemAccepts(points_to_redeem)
    /\ pc' = [pc EXCEPT ![p] = "r_customer"]
    /\ loc' = [loc EXCEPT ![p] = RedeemLocals(key[1], key[2], points_to_redeem)]
    /\ result' = NoResult
    /\ quota' = quota - 1
    /\ UNCHANGED <<store, clock, synth>>

\* Mutant: the balance is not compared with the amount.
RedeemCheck_NoBalance(cust_snap, points_to_redeem) ==
    IF ~cust_snap.exists THEN "Customer not found" ELSE "ok"

\* The ValueError _txn_redeem raises on the customer it read, or "ok".
RedeemCheck(cust_snap, points_to_redeem) ==
    IF ~cust_snap.exists THEN "Customer not found"
    ELSE IF points_to_redeem > cust_snap.points_balance THEN "Insufficient points"
    ELSE "ok"

\* _txn_redeem, read 1: the customer, inside the transaction.  A ValueError
\* rolls the transaction back (nothing is staged yet) and is answered 400.
Redeem_ReadCustomer(p) ==
    /\ pc[p] = "r_customer"
    /\ LET L == loc[p]
           cust_snap == customers[CustomerId(L.customer_phone, L.restaurant_id)]
           verdict == RedeemCheck(cust_snap, L.points_to_redeem)
       IN IF verdict # "ok"
          THEN /\ Finish(p, [status |-> "error", op |-> "redeem", code |-> 400, error |-> verdict])
               /\ loc' = [loc EXCEPT ![p] = NoLoc]
          ELSE /\ pc' = [pc EXCEPT ![p] = "r_counter"]
               /\ loc' = [loc EXCEPT ![p].current_balance = cust_snap.points_balance]
               /\ UNCHANGED result
    /\ UNCHANGED <<store, clock, count, synth>>

\* new_count of _txn_redeem from the counter document it read.
NewCount(counter_snap) == IF counter_snap.exists THEN counter_snap.count + 1 ELSE 1

\* Mutant: the counter is advanced when it is read, ahead of the commit.
Redeem_ReadCounter_Advance(p) ==
    /\ pc[p] = "r_counter"
    /\ pc' = [pc EXCEPT ![p] = "r_events"]
    /\ counter' = [exists |-> TRUE, count |-> NewCount(counter)]
    /\ loc' = [Written(p, loc[p], {}, TRUE) EXCEPT
                    ![p].counter_exists = counter.exists,
                    ![p].new_count = NewCount(counter)]
    /\ UNCHANGED <<customers, point_events, transactions, redemptions, restaurant_codes, clock, result,
                   count, synth>>

\* _txn_redeem, read 2: the counter, inside the transaction.
Redeem_ReadCounter(p) ==
    /\ pc[p] = "r_counter"
    /\ pc' = [pc EXCEPT ![p] = "r_events"]
    /\ loc' = [loc EXCEPT ![p].counter_exists = counter.exists,
                          ![p].new_count = NewCount(counter)]
    /\ UNCHANGED <<store, clock, result, count, synth>>

\* _txn_redeem, read 3: pe_query.stream() is not given the transaction, so
\* the events are read outside its read set.
Redeem_ReadEvents(p) ==
    /\ pc[p] = "r_events"
    /\ pc' = [pc EXCEPT ![p] = "r_commit"]
    /\ loc' = [loc EXCEPT ![p].point_events_to_update =
                    RedeemQuery(loc[p].customer_phone, loc[p].restaurant_id)]
    /\ UNCHANGED <<store, clock, result, count, synth>>

\* Phase 2 of _txn_redeem: the greedy allocation over the events read, in the
\* order read.  One entry per event that is used.
RECURSIVE Allocate(_, _)
Allocate(pes, remaining_to_consume) ==
    IF pes = <<>> \/ remaining_to_consume <= 0 THEN <<>>
    ELSE LET pe_item == Head(pes)
             avail == pe_item.data.remaining
         IN IF avail <= 0
            THEN Allocate(Tail(pes), remaining_to_consume)
            ELSE LET use == Min(avail, remaining_to_consume)
                 IN <<[id |-> pe_item.id, use |-> use, new_remaining |-> avail - use]>>
                    \o Allocate(Tail(pes), remaining_to_consume - use)

RECURSIVE SumUse(_)
SumUse(alloc) == IF alloc = <<>> THEN 0 ELSE Head(alloc).use + SumUse(Tail(alloc))

\* Mutant: the uncovered amount is dropped instead of recorded.
ConsumedEvents_NoSynthetic(alloc, points_to_redeem) ==
    [i \in 1..Len(alloc) |->
        [point_event_id |-> PointEventId(alloc[i].id), used |-> alloc[i].use]]

\* Mutant: the synthetic entry is appended also when nothing is left uncovered.
ConsumedEvents_AlwaysSynthetic(alloc, points_to_redeem) ==
    [i \in 1..Len(alloc) |->
        [point_event_id |-> PointEventId(alloc[i].id), used |-> alloc[i].use]]
    \o (IF points_to_redeem - SumUse(alloc) >= 0
        THEN <<[point_event_id |-> "synthetic_balance_correction",
                used |-> points_to_redeem - SumUse(alloc)]>>
        ELSE <<>>)

\* consumed_events of _txn_redeem, with the synthetic entry when the events
\* read do not cover the amount.
ConsumedEvents(alloc, points_to_redeem) ==
    [i \in 1..Len(alloc) |->
        [point_event_id |-> PointEventId(alloc[i].id), used |-> alloc[i].use]]
    \o (IF points_to_redeem - SumUse(alloc) > 0
        THEN <<[point_event_id |-> "synthetic_balance_correction",
                used |-> points_to_redeem - SumUse(alloc)]>>
        ELSE <<>>)

\* Write 2 of _txn_redeem: the update of one used point event.
RedeemedPointEvent(current, new_remaining) ==
    [current EXCEPT !.remaining = new_remaining,
                    !.status = IF new_remaining = 0 THEN "redeemed" ELSE "partial"]

\* Whether the commit of p's transaction goes through: no document of its read
\* set was written since it was read.
CommitSucceeds(p) == ~loc[p].stale

\* _txn_redeem, phase 3, and the commit: counter, point events, redemption
\* record and customer are written together; then the 200 answer.
Redeem_Commit(p) ==
    /\ pc[p] = "r_commit"
    /\ CommitSucceeds(p)
    /\ LET L == loc[p]
           cid == CustomerId(L.customer_phone, L.restaurant_id)
           alloc == Allocate(L.point_events_to_update, L.points_to_redeem)
           consumed_events == ConsumedEvents(alloc, L.points_to_redeem)
           redemption_id == RedemptionId(L.new_count)
           new_balance == L.current_balance - L.points_to_redeem
       IN /\ counter' = [exists |-> TRUE, count |-> L.new_count]
          /\ point_events' =
                [t \in TxIds |->
                    IF \E i \in 1..Len(alloc) : alloc[i].id = t
                    THEN LET i == CHOOSE i \in 1..Len(alloc) : alloc[i].id = t
                         IN RedeemedPointEvent(point_events[t], alloc[i].new_remaining)
                    ELSE point_events[t]]
          /\ redemptions' =
                (redemption_id :>
                    [redemption_id |-> redemption_id,
                     customer_phone |-> L.customer_phone,
                     points_redeemed |-> L.points_to_redeem,
                     restaurant_id |-> L.restaurant_id,
                     consumed_events |-> consumed_events,
                     status |-> "completed"]) @@ redemptions
          /\ customers' = [customers EXCEPT
                ![cid].points_balance = new_balance,
                ![cid].total_points_redeemed = @ + L.points_to_redeem]
          /\ synth' = (synth \/ L.points_to_redeem - SumUse(alloc) > 0)
          /\ loc' = Written(p, NoLoc, {cid}, TRUE)
          /\ Finish(p, [status |-> "ok", op |-> "redeem",
                        redemption_id |-> redemption_id, new_balance |-> new_balance])
    /\ UNCHANGED <<transactions, restaurant_codes, clock, count>>

\* @firestore.transactional: the commit fails on a conflict, nothing staged is
\* written, and _txn_redeem runs again from its first read.
Redeem_Abort(p) ==
    /\ pc[p] = "r_commit"
    /\ ~CommitSucceeds(p)
    /\ pc' = [pc EXCEPT ![p] = "r_customer"]
    /\ loc' = [loc EXCEPT ![p] =
            RedeemLocals(loc[p].customer_phone, loc[p].restaurant_id, loc[p].points_to_redeem)]
    /\ UNCHANGED <<store, clock, result, count, synth>>

\* ------------------------------------------------------------ Expiry sweep
\* run_expiry: now is taken, no page read yet.
Sweep_Start(p) ==
    /\ pc[p] = "idle"
    /\ quota > 0
    /\ pc' = [pc EXCEPT ![p] = "s_page"]
    /\ loc' = [loc EXCEPT ![p] =
            [op |-> "sweep", now |-> clock, last_doc |-> NoCursor, expired_total |-> 0,
             docs |-> <<>>]]
    /\ result' = NoResult
    /\ quota' = quota - 1
    /\ UNCHANGED <<store, clock, synth>>

\* run_expiry: docs = list(q.stream()); an empty page ends the run.
Sweep_ReadPage(p) ==
    /\ pc[p] = "s_page"
    /\ LET docs == ExpiryQuery(loc[p].now, loc[p].last_doc)
       IN IF docs = <<>>
          THEN /\ Finish(p, [status |-> "ok", op |-> "sweep",
                             expired |-> loc[p].expired_total])
               /\ loc' = [loc EXCEPT ![p] = NoLoc]
          ELSE /\ pc' = [pc EXCEPT ![p] = "s_batch"]
               /\ loc' = [loc EXCEPT ![p].docs = docs]
               /\ UNCHANGED result
    /\ UNCHANGED <<store, clock, count, synth>>

\* Mutant: every document of the page is put in the batch.
ToExpire_All(docs) == 1..Len(docs)

\* The documents of a page that run_expiry puts in the batch: not flagged
\* expired and with remaining > 0, as read.
ToExpire(docs) ==
    {i \in 1..Len(docs) : ~(docs[i].data.expired \/ docs[i].data.remaining <= 0)}

\* The sum of Increment(-remaining_pts) the batch holds for customer cid.
RECURSIVE SumRemaining(_, _, _)
SumRemaining(docs, I, cid) ==
    IF I = {} THEN 0
    ELSE LET i == CHOOSE i \in I : TRUE
             d == docs[i].data
         IN (IF CustomerId(d.customer_phone, d.restaurant_id) = cid THEN d.remaining ELSE 0)
            + SumRemaining(docs, I \ {i}, cid)

BatchCustomers(docs, I) ==
    {CustomerId(docs[i].data.customer_phone, docs[i].data.restaurant_id) : i \in I}

\* Mutant: the event is flagged expired and keeps its remaining points.
ExpiredPointEvent_KeepRemaining(current) ==
    [current EXCEPT !.expired = TRUE, !.status = "expired"]

\* Write of run_expiry to one point event.
ExpiredPointEvent(current) ==
    [current EXCEPT !.expired = TRUE, !.remaining = 0, !.status = "expired"]

\* run_expiry: the batch of one page is built from the documents as read and
\* committed as a whole; an update of a customer document that does not exist
\* fails the batch, and the handler answers 500.  The cursor moves to the last
\* document of the page; a short page ends the run.
Sweep_CommitPage(p) ==
    /\ pc[p] = "s_batch"
    /\ LET L == loc[p]
           docs == L.docs
           I == ToExpire(docs)
           cids == BatchCustomers(docs, I)
           last == docs[Len(docs)]
           expired_total == L.expired_total + Cardinality(I)
       IN IF \E cid \in cids : ~customers[cid].exists
          THEN /\ Finish(p, [status |-> "error", op |-> "sweep", code |-> 500,
                             error |-> "batch failed"])
               /\ loc' = [loc EXCEPT ![p] = NoLoc]
               /\ UNCHANGED <<customers, point_events>>
          ELSE /\ point_events' =
                    [t \in TxIds |->
                        IF \E i \in I : docs[i].id = t
                        THEN ExpiredPointEvent(point_events[t])
                        ELSE point_events[t]]
               /\ customers' =
                    [cid \in CustomerIds |->
                        IF cid \in cids
                        THEN [customers[cid] EXCEPT !.points_balance =
                                    @ - SumRemaining(docs, I, cid)]
                        ELSE customers[cid]]
               /\ IF Len(docs) < PageSize
                  THEN /\ Finish(p, [status |-> "ok", op |-> "sweep",
                                     expired |-> expired_total])
                       /\ loc' = Written(p, NoLoc, cids, FALSE)
                  ELSE /\ pc' = [pc EXCEPT ![p] = "s_page"]
                       /\ loc' = Written(p,
                                [op |-> "sweep", now |-> L.now,
                                 last_doc |-> [set |-> TRUE, id |-> last.id,
                                               expires_at |-> last.data.expires_at],
                                 expired_total |-> expired_total, docs |-> <<>>],
                                cids, FALSE)
                       /\ UNCHANGED result
    /\ UNCHANGED <<transactions, counter, redemptions, restaurant_codes, clock, count, synth>>

\* The process that runs run_expiry dies between two store calls: the request
\* gets no answer, and what the batches committed so far wrote stays written.
Sweep_Crash(p) ==
    /\ pc[p] \in {"s_page", "s_batch"}
    /\ pc' = [pc EXCEPT ![p] = "crashed"]
    /\ loc' = [loc EXCEPT ![p] = NoLoc]
    /\ UNCHANGED <<store, clock, result, count, synth>>

\* ---------------------------------------------------------- balance check
\* What a caller asks of the balance check.  get_customer takes the phone and
\* the restaurant; it has no parameter for a recomputation, so a caller's wish
\* for one is not part of what it reads.
CheckRequests == [customer_phone : {k[1] : k \in CustKeys}, recompute : BOOLEAN]

\* Mutant: the lookup creates the customer it does not find.
get_customer_Create(p, req) ==
    LET cid == CustomerId(req.customer_phone, RESTAURANT_ID)
    IN  /\ pc[p] = "idle"
        /\ quota > 0
        /\ customers' = [customers EXCEPT ![cid] =
                IF customers[cid].exists THEN customers[cid]
                ELSE [exists |-> TRUE, customer_name |-> "",
                      points_balance |-> 0, total_points_earned |-> 0,
                      total_visits |-> 0, total_points_redeemed |-> 0]]
        /\ Finish(p, [status |-> "ok", op |-> "check",
                      found |-> customers[cid].exists, customer |-> customers[cid]])
        /\ quota' = quota - 1
        /\ UNCHANGED <<point_events, transactions, counter, redemptions, restaurant_codes, clock, loc, synth>>

\* get_customer: one get of customers/<phone>_<restaurant_id>; the answer is
\* the stored document (to_dict), or None when there is none.
get_customer(p, req) ==
    LET cid == CustomerId(req.customer_phone, RESTAURANT_ID)
    IN  /\ pc[p] = "idle"
        /\ quota > 0
        /\ Finish(p, [status |-> "ok", op |-> "check",
                      found |-> customers[cid].exists, customer |-> customers[cid]])
        /\ quota' = quota - 1
        /\ UNCHANGED <<store, clock, loc, synth>>

\* -------------------------------------------------------------- onboarding
\* text.strip().upper() of a message body or of a code.
UpperStrip(text) == IF text = " save10" THEN "SAVE10" ELSE text

\* validate_signup_code: the restaurant has an active code and the text sent
\* is that code, case and surrounding blanks aside.
ValidSignupCode(text, rest_doc) ==
    /\ rest_doc.exists
    /\ rest_doc.active_code # ""
    /\ UpperStrip(text) = UpperStrip(rest_doc.active_code)

\* The document create_onboarding_customer sets.  A set replaces the whole
\* document: a total_points_redeemed the document had is gone, which reads as 0.
OnboardingCustomer(code) ==
    [exists |-> TRUE,
     customer_name |-> "",
     signup_code |-> code,
     awaiting_name |-> FALSE,
     points_balance |-> 0,
     total_points_earned |-> 0,
     total_visits |-> 0,
     total_points_redeemed |-> 0]

\* receive_message: customer = get_customer_by_phone_only(...).  A customer
\* that exists is answered (cases 1 and 2; no document written by this program
\* has awaiting_name = True, so no name is saved); for one that does not
\* exist the signup goes on.
Signup_ReadCustomer(p, phone, text) ==
    LET cid == CustomerId(phone, RESTAURANT_ID)
    IN  /\ pc[p] = "idle"
        /\ quota > 0
        /\ quota' = quota - 1
        /\ IF customers[cid].exists
           THEN /\ Finish(p, [status |-> "ok", op |-> "signup", created |-> FALSE])
                /\ UNCHANGED loc
           ELSE /\ pc' = [pc EXCEPT ![p] = "o_code"]
                /\ loc' = [loc EXCEPT ![p] =
                        [op |-> "signup", customer_phone |-> phone,
                         restaurant_id |-> RESTAURANT_ID, text |-> text]]
                /\ result' = NoResult
        /\ UNCHANGED <<store, clock, synth>>

\* receive_message, case 3: validate_signup_code reads the restaurant's code.
Signup_ValidateCode(p) ==
    /\ pc[p] = "o_code"
    /\ IF ValidSignupCode(loc[p].text, restaurant_codes)
       THEN /\ pc' = [pc EXCEPT ![p] = "o_create"]
            /\ UNCHANGED <<loc, result>>
       ELSE /\ Finish(p, [status |-> "ok", op |-> "signup", created |-> FALSE])
            /\ loc' = [loc EXCEPT ![p] = NoLoc]
    /\ UNCHANGED <<store, clock, count, synth>>

\* create_onboarding_customer: customers/<id>.set(...) with zero counters.
Signup_CreateCustomer(p) ==
    /\ pc[p] = "o_create"
    /\ LET cid == CustomerId(loc[p].customer_phone, loc[p].restaurant_id)
       IN /\ customers' = [customers EXCEPT ![cid] =
                                OnboardingCustomer(UpperStrip(loc[p].text))]
          /\ loc' = Written(p, loc[p], {cid}, FALSE)
    /\ pc' = [pc EXCEPT ![p] = "o_count"]
    /\ UNCHANGED <<point_events, transactions, counter, redemptions, restaurant_codes,
                   clock, result, count, synth>>

\* create_onboarding_customer: total_signups is incremented; then the welcome
\* message and the 200 answer.
Signup_CountSignup(p) ==
    /\ pc[p] = "o_count"
    /\ restaurant_codes' = [restaurant_codes EXCEPT !.total_signups = @ + 1]
    /\ Finish(p, [status |-> "ok", op |-> "signup", created |-> TRUE])
    /\ loc' = [loc EXCEPT ![p] = NoLoc]
    /\ UNCHANGED <<customers, point_events, transactions, counter, redemptions,
                   clock, count, synth>>

\* ------------------------------------------------------------ outbound send
\* What one requests.post of send_text can come back with: an answer with a
\* status code, whose body is JSON or is not, a timeout, or another
\* RequestException.
StatusCodes == {200, 204, 302, 400, 404, 429, 500, 503}
Outcomes ==
    [kind : {"response"}, status_code : StatusCodes, json : BOOLEAN]
        \cup {[kind |-> "timeout"], [kind |-> "network"]}

max_retries == 3

\* send_text is called: the first attempt is about to be made.
Send_Start(p) ==
    /\ pc[p] = "idle"
    /\ quota > 0
    /\ pc' = [pc EXCEPT ![p] = "t_post"]
    /\ loc' = [loc EXCEPT ![p] = [op |-> "send", attempt |-> 0]]
    /\ result' = NoResult
    /\ quota' = quota - 1
    /\ UNCHANGED <<store, clock, synth>>

\* The attempt failed in a way send_text retries: sleep and go round again, or
\* return the error after the last attempt.
SendRetryOrGiveUp(p, error) ==
    IF loc[p].attempt < max_retries - 1
    THEN /\ pc' = [pc EXCEPT ![p] = "t_post"]
         /\ loc' = [loc EXCEPT ![p].attempt = @ + 1]
         /\ UNCHANGED result
    ELSE /\ Finish(p, [status |-> "error", op |-> "send", error |-> error])
         /\ loc' = [loc EXCEPT ![p] = NoLoc]

\* One turn of send_text's loop.  response.json() on a 200 answer whose body
\* is not JSON raises: depending on the requests library in use the exception
\* is a RequestException, caught as a network error, or a plain ValueError,
\* which leaves send_text.
Send_Attempt(p, o) ==
    /\ pc[p] = "t_post"
    /\ IF o.kind = "timeout" THEN SendRetryOrGiveUp(p, "Request timeout")
       ELSE IF o.kind = "network" THEN SendRetryOrGiveUp(p, "Network error")
       ELSE IF o.status_code = 200
            THEN IF o.json
                 THEN /\ Finish(p, [status |-> "ok", op |-> "send"])
                      /\ loc' = [loc EXCEPT ![p] = NoLoc]
                 ELSE \/ SendRetryOrGiveUp(p, "Network error")
                      \/ /\ Finish(p, [status |-> "raised", op |-> "send",
                                       error |-> "ValueError"])
                         /\ loc' = [loc EXCEPT ![p] = NoLoc]
       ELSE IF 400 <= o.status_code /\ o.status_code < 500 /\ o.status_code # 429
            THEN /\ Finish(p, [status |-> "error", op |-> "send", error |-> "response.text"])
                 /\ loc' = [loc EXCEPT ![p] = NoLoc]
       ELSE SendRetryOrGiveUp(p, "response.text")
    /\ UNCHANGED <<store, clock, count, synth>>

\* ------------------------------------------------------------------- Next
Idle(p) == pc[p] = "idle"

EarnStep(p) ==
    \/ \E req \in EarnRequests : Earn_Reject(p, req)
    \/ \E req \in EarnRequests : Earn_Raise(p, req)
    \/ \E req \in EarnRequests : Earn_SaveTransaction(p, req)
    \/ Earn_CreatePointEvent(p)
    \/ Earn_ReadCustomer(p)
    \/ Earn_WriteCustomer(p)

\* The steps of a redeem, but for the failed commit of its transaction.
RedeemStep(p) ==
    \/ \E n \in RedeemVals : Redeem_Reject(p, n)
    \/ \E k \in CustKeys, n \in RedeemVals : Redeem_Begin(p, k, n)
    \/ Redeem_ReadCustomer(p)
    \/ Redeem_ReadCounter(p)
    \/ Redeem_ReadEvents(p)
    \/ Redeem_Commit(p)

SweepStep(p) ==
    \/ Sweep_Start(p)
    \/ Sweep_ReadPage(p)
    \/ Sweep_CommitPage(p)

\* A concurrent multi-request server: the handlers interleave at every store
\* call.
Next ==
    \/ Tick
    \/ \E p \in Workers : EarnStep(p)
    \/ \E p \in Workers : RedeemStep(p)
    \/ \E p \in Workers : SweepStep(p)
    \/ \E p \in Workers : Redeem_Abort(p)

Init == InitOf(MaxOps)

Spec == Init /\ [][Next]_vars

\* One request at a time: a single worker runs each handler to its answer
\* before it takes the next request.
SeqNext ==
    \/ Tick
    \/ EarnStep("w1")
    \/ RedeemStep("w1")
    \/ SweepStep("w1")

SpecSeq == InitOf(MaxSeqOps) /\ [][SeqNext]_vars

\* Redeem transactions interleave with each other at every store call; an earn
\* or a sweep runs while no other handler does.
InRedeem(q) == pc[q] \in {"idle", "r_customer", "r_counter", "r_events", "r_commit"}

TxnNext ==
    \/ Tick
    \/ \E p \in Workers : (\A q \in Workers \ {p} : Idle(q)) /\ EarnStep(p)
    \/ \E p \in Workers : (\A q \in Workers \ {p} : Idle(q)) /\ SweepStep(p)
    \/ \E p \in Workers : (\A q \in Workers \ {p} : InRedeem(q)) /\ RedeemStep(p)
    \/ \E p \in Workers : Redeem_Abort(p)

SpecTxn == InitOf(MaxTxnOps) /\ [][TxnNext]_vars

\* A sweep interleaves with redeem transactions at every store call; an earn
\* runs while no other handler does, and no two sweeps overlap.
InSweep(q) == pc[q] \in {"s_page", "s_batch"}

SweepRedeemNext ==
    \/ Tick
    \/ \E p \in Workers : (\A q \in Workers \ {p} : Idle(q)) /\ EarnStep(p)
    \/ \E p \in Workers : (\A q \in Workers \ {p} : InRedeem(q)) /\ SweepStep(p)
    \/ \E p \in Workers : (\A q \in Workers \ {p} : InRedeem(q) \/ InSweep(q)) /\ RedeemStep(p)
    \/ \E p \in Workers : Redeem_Abort(p)

SpecSweepRedeem == InitOf(MaxOps) /\ [][SweepRedeemNext]_vars

\* One request at a time on w1, the last two of them sweeps; the process of
\* w1 may die in a sweep, and the sweeps run after that are taken by w2.
SweepResumeNext ==
    \/ Tick
    \/ (quota > 2 \/ ~Idle("w1")) /\ EarnStep("w1")
    \/ (quota > 2 \/ ~Idle("w1")) /\ RedeemStep("w1")
    \/ SweepStep("w1")
    \/ Sweep_Crash("w1")
    \/ pc["w1"] = "crashed" /\ SweepStep("w2")

SpecSweepResume == InitOf(MaxSweepOps) /\ [][SweepResumeNext]_vars

\* One request at a time, the last two of them sweeps run in succession: once
\* the first of the two has started, no time passes and nothing else runs.
SweepTwiceNext ==
    \/ quota >= 2 /\ Tick
    \/ (quota > 2 \/ ~Idle("w1")) /\ EarnStep("w1")
    \/ (quota > 2 \/ ~Idle("w1")) /\ RedeemStep("w1")
    \/ SweepStep("w1")

SpecSweepTwice == InitOf(MaxSweepOps) /\ [][SweepTwiceNext]_vars

\* Requests are handled one after the other, balance checks among them.
CheckNext ==
    \/ Tick
    \/ EarnStep("w1")
    \/ RedeemStep("w1")
    \/ SweepStep("w1")
    \/ \E req \in CheckRequests : get_customer("w1", req)

SpecCheck == InitOf(MaxCheckOps) /\ [][CheckNext]_vars

\* Earn requests that carry names, from both workers at once; redeems and
\* sweeps run beside them.
NamedEarnStep(p) ==
    \/ \E req \in NamedEarnRequests : Earn_Reject(p, req)
    \/ \E req \in NamedEarnRequests : Earn_Raise(p, req)
    \/ \E req \in NamedEarnRequests : Earn_SaveTransaction(p, req)
    \/ Earn_CreatePointEvent(p)
    \/ Earn_ReadCustomer(p)
    \/ Earn_WriteCustomer(p)

NameNext ==
    \/ Tick
    \/ \E p \in Workers : NamedEarnStep(p)
    \/ RedeemStep("w1")
    \/ Redeem_Abort("w1")
    \/ SweepStep("w1")

SpecName == InitOf(MaxNameOps) /\ [][NameNext]_vars

\* The same requests, one after the other.
NameSeqNext ==
    \/ Tick
    \/ NamedEarnStep("w1")
    \/ RedeemStep("w1")
    \/ SweepStep("w1")

SpecNameSeq == InitOf(MaxNameOps) /\ [][NameSeqNext]_vars

\* Signup messages and earn requests, handled at the same time.
SignupStep(p) ==
    \/ \E k \in CustKeys, text \in MessageTexts : Signup_ReadCustomer(p, k[1], text)
    \/ Signup_ValidateCode(p)
    \/ Signup_CreateCustomer(p)
    \/ Signup_CountSignup(p)

SignupNext ==
    \/ \E p \in Workers : EarnStep(p)
    \/ \E p \in Workers : SignupStep(p)

SpecSignup == InitOf(MaxSignupOps) /\ [][SignupNext]_vars

\* Messages are sent from both workers.
SendStep(p) ==
    \/ Send_Start(p)
    \/ \E o \in Outcomes : Send_Attempt(p, o)

SendNext == \E p \in Workers : SendStep(p)

SpecSend == InitOf(MaxSendOps) /\ [][SendNext]_vars

\* ----------------------------------------------------------------- claims
AllIdle == \A p \in Workers : Idle(p)

RECURSIVE SumRemainingOf(_)
SumRemainingOf(T) ==
    IF T = {} THEN 0
    ELSE LET t == CHOOSE t \in T : TRUE
         IN point_events[t].remaining + SumRemainingOf(T \ {t})

\* The balance recomputed from the events: the sum of remaining over the
\* customer's active and partial point events.
RecomputedBalance(key) == SumRemainingOf(LiveEvents(key[1], key[2]))

\* C1 (reconciliation equivalence): after any sequence of earn, redeem and
\* sweep requests, none of which wrote a synthetic correction, every customer's
\* points_balance equals the sum of remaining over the customer's active and
\* partial point events.
C1_ReconciliationEquivalence ==
    (AllIdle /\ ~synth) =>
        \A k \in CustKeys :
            customers[CustomerId(k[1], k[2])].exists =>
                customers[CustomerId(k[1], k[2])].points_balance = RecomputedBalance(k)

\* C4 (balance non-negativity): in every state reached by earn and redeem
\* requests, every customer's points_balance is >= 0.
C4_BalanceNonNegative ==
    \A cid \in CustomerIds : customers[cid].exists => customers[cid].points_balance >= 0

\* The step in which worker p's redeem transaction commits.
Commits(p) == pc[p] = "r_commit" /\ pc'[p] = "idle"

RECURSIVE SumUsed(_)
SumUsed(consumed_events) ==
    IF consumed_events = <<>> THEN 0
    ELSE Head(consumed_events).used + SumUsed(Tail(consumed_events))

\* C2 (conservation under redemption): a redeem of N points that commits
\* writes a redemption record whose used amounts sum to N, and lowers the
\* customer's points_balance by exactly N, which it returns as new_balance.
C2_Conservation ==
    [][\A p \in Workers :
        Commits(p) =>
            LET N == loc[p].points_to_redeem
                cid == CustomerId(loc[p].customer_phone, loc[p].restaurant_id)
            IN /\ result'.status = "ok"
               /\ result'.op = "redeem"
               /\ result'.redemption_id \in DOMAIN redemptions'
               /\ redemptions'[result'.redemption_id].points_redeemed = N
               /\ SumUsed(redemptions'[result'.redemption_id].consumed_events) = N
               /\ customers'[cid].points_balance = customers[cid].points_balance - N
               /\ result'.new_balance = customers'[cid].points_balance]_vars

\* A redeem of MaxPoints points has committed and answered.
C2_Witness ==
    /\ result.status = "ok"
    /\ result.op = "redeem"
    /\ result.redemption_id \in DOMAIN redemptions
    /\ redemptions[result.redemption_id].points_redeemed = MaxPoints

\* The entries of a record's consumed_events that name a point event, and the
\* transaction id of the event an entry names.
RealEntries(consumed_events) ==
    SelectSeq(consumed_events, LAMBDA e : e.point_event_id # "synthetic_balance_correction")

TxOf(point_event_id) == CHOOSE t \in TxIds : PointEventId(t) = point_event_id

RECURSIVE UsedBefore(_, _)
UsedBefore(entries, i) == IF i <= 1 THEN 0 ELSE entries[i - 1].used + UsedBefore(entries, i - 1)

Reads(p) == pc[p] = "r_events" /\ pc'[p] = "r_commit"

\* C3 (FIFO by expiry): a redeem fetches the customer's active and partial
\* events in ascending expires_at order, and its commit takes from them, in
\* that order, min(remaining, still to consume) each: the entries are listed in
\* that order, every listed event is a live event of the customer, every listed
\* event but the last is drained to 0, and no event is listed while an
\* earlier-expiring fetched event with remaining > 0 is not.
C3_FifoByExpiry ==
    [][\A p \in Workers :
        /\ Reads(p) =>
            LET fetched == loc'[p].point_events_to_update
                live == LiveEvents(loc[p].customer_phone, loc[p].restaurant_id)
                ids == {fetched[i].id : i \in 1..Len(fetched)}
            IN /\ ids \subseteq live
               /\ \A i, j \in 1..Len(fetched) :
                    i < j => fetched[i].id # fetched[j].id /\ Before(fetched[i].id, fetched[j].id)
               /\ \A u \in live \ ids : \A t \in ids : Before(t, u)
        /\ Commits(p) =>
            LET N == loc[p].points_to_redeem
                fetched == loc[p].point_events_to_update
                entries == RealEntries(redemptions'[result'.redemption_id].consumed_events)
                tx(i) == TxOf(entries[i].point_event_id)
                live == LiveEvents(loc[p].customer_phone, loc[p].restaurant_id)
            IN \A i \in 1..Len(entries) :
                    /\ tx(i) \in live
                    /\ entries[i].used > 0
                    /\ entries[i].used =
                            Min(point_events[tx(i)].remaining, N - UsedBefore(entries, i))
                    /\ point_events'[tx(i)].remaining =
                            point_events[tx(i)].remaining - entries[i].used
                    /\ i < Len(entries) => point_events'[tx(i)].remaining = 0
                    /\ \A j \in 1..Len(entries) :
                            i < j => tx(i) # tx(j) /\ Before(tx(i), tx(j))
                    /\ \A k \in 1..Len(fetched) :
                            LET u == fetched[k].id
                            IN (point_events[u].remaining > 0 /\ u # tx(i) /\ Before(u, tx(i)))
                                    => \E j \in 1..Len(entries) : j < i /\ tx(j) = u]_vars

\* The effects of a redeem, as seen on one step.
CounterAdvanced == counter' # counter

RecordCreated == redemptions' # redemptions

EventConsumed ==
    \E t \in TxIds :
        /\ point_events'[t] # point_events[t]
        /\ point_events'[t].exists
        /\ point_events'[t].status \in {"redeemed", "partial"}

CustomerCharged ==
    \E cid \in CustomerIds :
        /\ customers[cid].exists
        /\ customers'[cid].exists
        /\ customers'[cid].total_points_redeemed > customers[cid].total_points_redeemed

\* C5 (redeem is all-or-nothing): no step shows part of a redeem.  A step that
\* advances the counter, creates a redemption record, marks a point event
\* redeemed or partial, or charges a customer is the commit of one redeem, and
\* does all of it together: the counter goes up by one, the record of that
\* count appears, every event the record lists is updated, and the customer is
\* charged the record's amount.  A failed commit, and every other step, does
\* none of it.
C5_RedeemAllOrNothing ==
    [][(CounterAdvanced \/ RecordCreated \/ EventConsumed \/ CustomerCharged) =>
        \E p \in Workers :
            /\ Commits(p)
            /\ LET N == loc[p].points_to_redeem
                   cid == CustomerId(loc[p].customer_phone, loc[p].restaurant_id)
                   rid == RedemptionId(NewCount(counter))
               IN /\ counter' = [exists |-> TRUE, count |-> NewCount(counter)]
                  /\ rid \notin DOMAIN redemptions
                  /\ DOMAIN redemptions' = DOMAIN redemptions \cup {rid}
                  /\ redemptions'[rid].points_redeemed = N
                  /\ \A i \in 1..Len(RealEntries(redemptions'[rid].consumed_events)) :
                        LET t == TxOf(RealEntries(redemptions'[rid].consumed_events)[i].point_event_id)
                        IN /\ point_events'[t] # point_events[t]
                           /\ point_events'[t].status \in {"redeemed", "partial"}
                           /\ point_events'[t].status = "redeemed"
                                <=> point_events'[t].remaining = 0
                  /\ customers'[cid].points_balance = customers[cid].points_balance - N
                  /\ customers'[cid].total_points_redeemed =
                        customers[cid].total_points_redeemed + N]_vars

\* A redeem transaction is about to fail its commit, beside one that committed.
C5_Witness ==
    /\ redemptions # <<>>
    /\ \E p \in Workers : pc[p] = "r_commit" /\ ~CommitSucceeds(p)

\* C6 (business-rule rejection): a redeem that reads no customer document
\* answers "Customer not found", one that reads a balance below the amount
\* answers "Insufficient points", and neither it nor the start of the call
\* changes any document.
C6_RejectionLeavesState ==
    [][\A p \in Workers :
        /\ (pc[p] = "idle" /\ pc'[p] = "r_customer") => store' = store
        /\ (pc[p] = "r_customer" /\ pc'[p] # "r_customer") =>
            LET cust == customers[CustomerId(loc[p].customer_phone, loc[p].restaurant_id)]
                rejected(why) == /\ pc'[p] = "idle"
                                 /\ result'.status = "error"
                                 /\ result'.op = "redeem"
                                 /\ result'.error = why
                                 /\ store' = store
            IN /\ ~cust.exists => rejected("Customer not found")
               /\ (cust.exists /\ loc[p].points_to_redeem > cust.points_balance)
                        => rejected("Insufficient points")]_vars

\* A redeem was answered "Insufficient points" for a customer that exists.
C6_Witness ==
    /\ result.status = "error"
    /\ result.op = "redeem"
    /\ result.error = "Insufficient points"
    /\ \E cid \in CustomerIds : customers[cid].exists /\ customers[cid].points_balance > 0

\* C7 (concurrent redeems serialize): whatever the interleaving of redeem
\* transactions, a commit acts on what it would read at that moment: the
\* balance, the counter and the events it read are those of the store, so the
\* commit is the redeem run alone at that point.  Hence the amount is within
\* the balance, each listed event's remaining goes down by exactly the used
\* amount, and no remaining and no balance goes below 0.
C7_RedeemsSerialize ==
    [][\A p \in Workers :
        Commits(p) =>
            LET L == loc[p]
                cid == CustomerId(L.customer_phone, L.restaurant_id)
                entries == RealEntries(redemptions'[result'.redemption_id].consumed_events)
            IN /\ L.current_balance = customers[cid].points_balance
               /\ L.new_count = NewCount(counter)
               /\ L.point_events_to_update = RedeemQuery(L.customer_phone, L.restaurant_id)
               /\ L.points_to_redeem <= customers[cid].points_balance
               /\ customers'[cid].points_balance >= 0
               /\ \A i \in 1..Len(entries) :
                    LET t == TxOf(entries[i].point_event_id)
                    IN /\ point_events'[t].remaining =
                            point_events[t].remaining - entries[i].used
                       /\ point_events'[t].remaining >= 0]_vars

\* Two redeems of one customer overlapped: one has committed, the other read
\* the customer before that and is about to fail its commit.
C7_Witness ==
    \E p \in Workers :
        /\ pc[p] = "r_commit"
        /\ ~CommitSucceeds(p)
        /\ \E rid \in DOMAIN redemptions :
                /\ redemptions[rid].customer_phone = loc[p].customer_phone
                /\ redemptions[rid].restaurant_id = loc[p].restaurant_id

RedemptionCount == IF counter.exists THEN counter.count ELSE 0

\* C8 (redemption ids): in every state the redemption records are exactly
\* R0001 .. R<count>, one per committed redeem, so no two share an id; a commit
\* adds exactly one record and one to the counter; no record is ever
\* overwritten, and no other step (a failed commit included) moves the counter.
C8_RedemptionIds ==
    /\ [](DOMAIN redemptions = {RedemptionId(i) : i \in 1..RedemptionCount})
    /\ [](Cardinality(DOMAIN redemptions) = RedemptionCount)
    /\ [][/\ \A rid \in DOMAIN redemptions :
                rid \in DOMAIN redemptions' /\ redemptions'[rid] = redemptions[rid]
          /\ counter' # counter => \E p \in Workers : Commits(p)
          /\ \A p \in Workers :
                Commits(p) =>
                    /\ counter' = [exists |-> TRUE, count |-> RedemptionCount + 1]
                    /\ Cardinality(DOMAIN redemptions') = Cardinality(DOMAIN redemptions) + 1
                    /\ result'.redemption_id = RedemptionId(RedemptionCount + 1)
                    /\ result'.redemption_id \notin DOMAIN redemptions]_vars

\* Redeems of different customers contended for the counter: one committed,
\* and the other, which read the counter before that, is about to fail.
C8_Witness ==
    \E p \in Workers :
        /\ pc[p] = "r_commit"
        /\ ~CommitSucceeds(p)
        /\ redemptions # <<>>
        /\ \A rid \in DOMAIN redemptions :
                redemptions[rid].customer_phone # loc[p].customer_phone

\* C9 (earn idempotency guard): an earn request whose transaction_id already
\* has an earn record is answered DuplicateTransaction and changes no document.
C9_DuplicateEarnRejected ==
    [][\A p \in Workers : \A t \in TxIds :
        (/\ pc[p] = "idle"
         /\ point_events[t].exists
         /\ loc'[p].op = "earn"
         /\ loc'[p].transaction_id = t)
            => /\ result'.status = "error"
               /\ result'.error = "DuplicateTransaction"
               /\ store' = store]_vars

\* C10 (earn success effect): an accepted earn of P points sets exactly one
\* point event, pe_<transaction_id>, with points = remaining = P, status
\* active and expires_at = the time of the call + the expiry days; and when it
\* answers, the customer's points_balance and total_points_earned are up by P
\* and total_visits by 1, counted from 0 for a customer that did not exist.
C10_EarnEffect ==
    [][\A p \in Workers :
        /\ (pc[p] = "idle" /\ pc'[p] = "e_point_event") =>
                /\ loc'[p].now = clock
                /\ customers' = customers
                /\ point_events' = point_events
        /\ (pc[p] = "e_point_event" /\ pc'[p] # "e_point_event") =>
            LET L == loc[p]
                pe == point_events'[L.transaction_id]
            IN /\ pe.exists
               /\ pe.points = L.points_earned
               /\ pe.remaining = L.points_earned
               /\ pe.status = "active"
               /\ ~pe.expired
               /\ pe.expires_at = L.now + ExpiryDays
               /\ pe.customer_phone = L.customer_phone
               /\ pe.restaurant_id = L.restaurant_id
               /\ \A u \in TxIds \ {L.transaction_id} : point_events'[u] = point_events[u]
               /\ customers' = customers
        /\ (pc[p] = "e_customer_get" /\ pc'[p] # "e_customer_get") =>
                /\ customers' = customers
                /\ point_events' = point_events
        /\ (pc[p] = "e_customer_put" /\ pc'[p] # "e_customer_put") =>
            LET L == loc[p]
                cid == CustomerId(L.customer_phone, L.restaurant_id)
                old == customers[cid]
                new == customers'[cid]
            IN /\ pc'[p] = "idle"
               /\ result'.status = "ok"
               /\ result'.op = "earn"
               /\ result'.point_event_id = PointEventId(L.transaction_id)
               /\ result'.expires_at = L.now + ExpiryDays
               /\ new.exists
               /\ new.points_balance =
                    (IF old.exists THEN old.points_balance ELSE 0) + L.points_earned
               /\ new.total_points_earned =
                    (IF old.exists THEN old.total_points_earned ELSE 0) + L.points_earned
               /\ new.total_visits = (IF old.exists THEN old.total_visits ELSE 0) + 1
               /\ \A other \in CustomerIds \ {cid} : customers'[other] = customers[other]
               /\ point_events' = point_events]_vars

\* The three counters an earn adds to, 0 for a customer that has no record.
EarnCounters(doc) ==
    IF doc.exists
    THEN <<doc.points_balance, doc.total_points_earned, doc.total_visits>>
    ELSE <<0, 0, 0>>

WritesCustomer(p) == pc[p] = "e_customer_put" /\ pc'[p] = "idle"

\* C11 (earn serializes): whatever earn, redeem or sweep of the same customer
\* ran between an earn's read of the customer and its write, the write adds
\* the earn's points and its visit to what the customer record holds at that
\* moment, so that no increment or decrement made in between is lost and two
\* first earns of a new customer both count.
C11_EarnSerializes ==
    [][\A p \in Workers :
        WritesCustomer(p) =>
            LET L == loc[p]
                cid == CustomerId(L.customer_phone, L.restaurant_id)
                before == EarnCounters(customers[cid])
                after == EarnCounters(customers'[cid])
            IN /\ customers'[cid].exists
               /\ after[1] = before[1] + L.points_earned
               /\ after[2] = before[2] + L.points_earned
               /\ after[3] = before[3] + 1
               /\ customers[cid].exists =>
                    customers'[cid].total_points_redeemed = customers[cid].total_points_redeemed]_vars

\* The sweep that runs is the second of two run in succession.
SecondSweep == quota = 0 /\ loc["w1"].op = "sweep"

\* C12 (idempotent expiry): of two sweeps run in succession with nothing in
\* between, the second changes no point event and no customer, and answers
\* with an expired count of 0.
C12_IdempotentExpiry ==
    [][SecondSweep =>
            /\ point_events' = point_events
            /\ customers' = customers
            /\ pc'["w1"] = "idle" =>
                    /\ result'.status = "ok"
                    /\ result'.op = "sweep"
                    /\ result'.expired = 0]_vars

\* The second of two sweeps has answered, and the first had expired an event
\* that a redeem had left partial.
C12_Witness ==
    /\ quota = 0
    /\ result.op = "sweep"
    /\ result.status = "ok"
    /\ \E t \in TxIds :
            /\ point_events[t].exists
            /\ point_events[t].status = "expired"
            /\ point_events[t].remaining = 0
            /\ customers[CustomerId(point_events[t].customer_phone,
                                    point_events[t].restaurant_id)].total_points_redeemed > 0

\* A due event, as the store holds it, that a sweep run at now has to expire.
Expirable(t, now) ==
    /\ point_events[t].exists
    /\ point_events[t].expires_at <= now
    /\ ~point_events[t].expired
    /\ point_events[t].remaining > 0

PageIds(docs) == {docs[i].id : i \in 1..Len(docs)}

OwnedBy(t, cid) ==
    /\ point_events[t].exists
    /\ CustomerId(point_events[t].customer_phone, point_events[t].restaurant_id) = cid

ReadsPage(p) == pc[p] = "s_page" /\ pc'[p] # "s_page"

CommitsPage(p) ==
    /\ pc[p] = "s_batch"
    /\ pc'[p] \in {"s_page", "idle"}
    /\ result'.status # "error"

\* C13 (sweep effect): a sweep run at now goes through the due events page by
\* page, missing none; the commit of a page sets remaining = 0 and status =
\* expired on every event of the page that is not expired and has remaining >
\* 0, takes exactly that remaining off its owner's points_balance, counts it,
\* and leaves every other event and every other customer field unchanged.
C13_SweepEffect ==
    [][\A p \in Workers :
        /\ ReadsPage(p) =>
            LET L == loc[p]
                page == IF pc'[p] = "s_batch" THEN PageIds(loc'[p].docs) ELSE {}
                due == {t \in TxIds : /\ point_events[t].exists
                                      /\ point_events[t].expires_at <= L.now
                                      /\ AfterCursor(t, L.last_doc)}
            IN /\ page \subseteq due
               /\ page = {} <=> due = {}
               /\ \A t \in due \ page :
                    Cardinality(page) = PageSize /\ \A u \in page : Before(u, t)
               /\ store' = store
        /\ CommitsPage(p) =>
            LET L == loc[p]
                hit == {t \in PageIds(L.docs) : Expirable(t, L.now)}
            IN /\ \A t \in hit :
                    /\ point_events'[t].remaining = 0
                    /\ point_events'[t].status = "expired"
               /\ \A t \in TxIds \ hit : point_events'[t] = point_events[t]
               /\ \A cid \in CustomerIds :
                    LET mine == {t \in hit : OwnedBy(t, cid)}
                    IN IF mine = {}
                       THEN customers'[cid] = customers[cid]
                       ELSE customers'[cid] =
                                [customers[cid] EXCEPT !.points_balance =
                                        @ - SumRemainingOf(mine)]
               /\ (IF pc'[p] = "idle" THEN result'.expired ELSE loc'[p].expired_total)
                        = L.expired_total + Cardinality(hit)
               /\ pc'[p] = "idle" <=> Len(L.docs) < PageSize
               /\ pc'[p] # "idle" =>
                    /\ loc'[p].last_doc.set
                    /\ loc'[p].last_doc.id = L.docs[Len(L.docs)].id]_vars

\* C14 (expired at most once): whatever sweeps ran before or run alongside,
\* the batch a sweep commits takes an event's remaining off its owner's
\* balance only if the event has not been expired yet.
C14_ExpiredAtMostOnce ==
    [][\A p \in Workers :
        CommitsPage(p) =>
            \A i \in ToExpire(loc[p].docs) :
                LET t == loc[p].docs[i].id
                    cid == CustomerId(loc[p].docs[i].data.customer_phone,
                                      loc[p].docs[i].data.restaurant_id)
                IN customers'[cid].points_balance < customers[cid].points_balance
                        => ~point_events[t].expired]_vars

\* The events of a page that a step turns from active or partial to expired.
NewlyExpired(docs) ==
    {t \in PageIds(docs) : /\ point_events[t].status \in {"active", "partial"}
                           /\ point_events'[t].status = "expired"}

\* C15 (sweep decrement under concurrent redeems): whatever redeem of the
\* customer committed between a sweep's read of a page and the commit of its
\* batch, the batch takes off the customer's points_balance exactly the points
\* that its events still hold when they are expired, so that a point already
\* redeemed is not removed again and the balance stays the sum of remaining
\* over the customer's active and partial events.
C15_SweepSafeWithRedeem ==
    [][\A p \in Workers :
        CommitsPage(p) =>
            \A cid \in CustomerIds :
                customers[cid].exists =>
                    customers[cid].points_balance - customers'[cid].points_balance =
                        SumRemainingOf({t \in NewlyExpired(loc[p].docs) : OwnedBy(t, cid)})]_vars

\* What an uninterrupted sweep run at now makes of the point events pe and of
\* the balance of customer cid in cu.
ExpirableIn(pe, t, now) ==
    /\ pe[t].exists
    /\ pe[t].expires_at <= now
    /\ ~pe[t].expired
    /\ pe[t].remaining > 0

SweptEvents(pe, now) ==
    [t \in TxIds |->
        IF ExpirableIn(pe, t, now)
        THEN [pe[t] EXCEPT !.remaining = 0, !.status = "expired", !.expired = TRUE]
        ELSE pe[t]]

RECURSIVE SumRemainingIn(_, _)
SumRemainingIn(pe, T) ==
    IF T = {} THEN 0
    ELSE LET t == CHOOSE t \in T : TRUE
         IN pe[t].remaining + SumRemainingIn(pe, T \ {t})

SweptBalance(pe, cu, cid, now) ==
    cu[cid].points_balance
        - SumRemainingIn(pe, {t \in TxIds :
                /\ ExpirableIn(pe, t, now)
                /\ CustomerId(pe[t].customer_phone, pe[t].restaurant_id) = cid})

\* C16 (resumable sweep): every batch a sweep commits, whether the run goes on
\* or dies after it, leaves unchanged what an uninterrupted sweep (at the
\* run's time or later) would make of the store, and counts exactly the events
\* it expires; and a sweep that answers leaves no due event unexpired.  Hence
\* a sweep run after a crashed one expires exactly the due events not yet
\* expired, and events and balances end as after one uninterrupted sweep.
C16_SweepResumable ==
    [][\A p \in Workers :
        /\ CommitsPage(p) =>
            /\ \A T \in loc[p].now..MaxTime :
                /\ SweptEvents(point_events', T) = SweptEvents(point_events, T)
                /\ \A cid \in CustomerIds :
                        customers[cid].exists =>
                            SweptBalance(point_events', customers', cid, T)
                                = SweptBalance(point_events, customers, cid, T)
            /\ (IF pc'[p] = "idle" THEN result'.expired ELSE loc'[p].expired_total)
                    = loc[p].expired_total + Cardinality(NewlyExpired(loc[p].docs))
        /\ (InSweep(p) /\ pc'[p] = "idle" /\ result'.status = "ok") =>
                /\ \A t \in TxIds : ~ExpirableIn(point_events', t, loc[p].now)
                /\ SweptEvents(point_events', loc[p].now) = point_events']_vars

\* A sweep died after the batch of its first page; the sweep run after it has
\* answered, having expired the one due event that was left.
C16_Witness ==
    /\ pc["w1"] = "crashed"
    /\ result.op = "sweep"
    /\ result.status = "ok"
    /\ result.expired = 1
    /\ \A t \in TxIds : point_events[t].exists /\ point_events[t].status = "expired"
    /\ \E cid \in CustomerIds : customers[cid].exists /\ customers[cid].points_balance = 0

ForwardMoves ==
    {<<"active", "partial">>, <<"active", "redeemed">>, <<"partial", "partial">>,
     <<"partial", "redeemed">>, <<"active", "expired">>, <<"partial", "expired">>}

\* C17 (status moves forward): on every step of an earn, a redeem or a sweep,
\* a point event that changes status goes active -> partial, active ->
\* redeemed, partial -> redeemed, active -> expired or partial -> expired, and
\* an event that is redeemed or expired keeps its status and its remaining.
C17_StatusForward ==
    [][\A t \in TxIds :
        point_events[t].exists =>
            /\ point_events'[t].exists
            /\ point_events'[t].status # point_events[t].status =>
                    <<point_events[t].status, point_events'[t].status>> \in ForwardMoves
            /\ point_events[t].status \in {"redeemed", "expired"} =>
                    /\ point_events'[t].status = point_events[t].status
                    /\ point_events'[t].remaining = point_events[t].remaining]_vars

\* C18 (point event invariant): in every state every point event has
\* 0 <= remaining <= points, and remaining = 0 when its status is redeemed or
\* expired.
C18_PointEventInvariant ==
    \A t \in TxIds :
        point_events[t].exists =>
            /\ 0 <= point_events[t].remaining
            /\ point_events[t].remaining <= point_events[t].points
            /\ point_events[t].status \in {"redeemed", "expired"} =>
                    point_events[t].remaining = 0

\* The customer an earn or a redeem step of worker p works for.
ActsFor(p) ==
    LET L == IF loc'[p].op \in {"earn", "redeem"} THEN loc'[p] ELSE loc[p]
    IN CustomerId(L.customer_phone, L.restaurant_id)

EarnOrRedeemStep(p) ==
    /\ pc'[p] # pc[p]
    /\ loc[p].op \in {"earn", "redeem"} \/ loc'[p].op \in {"earn", "redeem"}

\* C19 (customer isolation): a step of an earn or a redeem for customer A
\* changes no other customer's record and no point event owned by another
\* customer, whatever transaction id the caller sent; and a sweep's batch
\* changes a customer's record only if its page holds an event of that customer.
C19_CustomerIsolation ==
    [][\A p \in Workers :
        /\ EarnOrRedeemStep(p) =>
            /\ \A cid \in CustomerIds \ {ActsFor(p)} : customers'[cid] = customers[cid]
            /\ \A t \in TxIds :
                    (point_events[t].exists /\ ~OwnedBy(t, ActsFor(p)))
                        => point_events'[t] = point_events[t]
        /\ CommitsPage(p) =>
            \A cid \in CustomerIds :
                customers'[cid] # customers[cid] =>
                    \E t \in PageIds(loc[p].docs) : OwnedBy(t, cid)]_vars

\* C20 (redeem rejects a non-positive amount): a redeem request with
\* points_to_redeem <= 0, or with no amount, is answered 400 by the handler
\* itself: no transaction starts, and the counter, the point events, the
\* redemption records and the customers are left as they were.
C20_RedeemRejectsNonPositive ==
    [][\A p \in Workers :
        /\ \A n \in RedeemVals :
            (n <= 0 /\ (Redeem_Reject(p, n) \/ \E k \in CustKeys : Redeem_Begin(p, k, n)))
                => /\ result'.status = "error"
                   /\ result'.op = "redeem"
                   /\ result'.code = 400
                   /\ pc'[p] = "idle"
                   /\ loc'[p] = loc[p]
                   /\ store' = store
        /\ loc'[p].op = "redeem" => loc'[p].points_to_redeem > 0]_vars

\* A redeem was refused for its amount in a store that holds a customer with
\* points and an earlier redemption.
C20_Witness ==
    /\ result.op = "redeem"
    /\ result.status = "error"
    /\ result.error = "points_to_redeem must be > 0"
    /\ counter.exists
    /\ \E cid \in CustomerIds : customers[cid].exists /\ customers[cid].points_balance > 0

\* A body in which a required field is absent or is not a number.
BadInput(req) ==
    \/ req.transaction_id = 0
    \/ req.customer_phone = ""
    \/ req.bill_amount.kind # "number"
    \/ req.points_earned.kind # "number"

\* C21 (earn rejects bad input): an earn request in which transaction_id,
\* customer_phone, bill_amount or points_earned is absent, or bill_amount or
\* points_earned is not a number, is answered with an error and writes nothing:
\* no transaction document, no point event, no customer.
C21_EarnRejectsBadInput ==
    [][\A p \in Workers :
        \A req \in EarnRequests :
            (/\ pc[p] = "idle"
             /\ BadInput(req)
             /\ (Earn_Reject(p, req) \/ Earn_Raise(p, req) \/ Earn_SaveTransaction(p, req)))
                => /\ result'.status = "error"
                   /\ result'.op = "earn"
                   /\ result'.code \in {400, 500}
                   /\ pc'[p] = "idle"
                   /\ loc'[p] = loc[p]
                   /\ store' = store]_vars

\* An earn was refused for a field that is not a number, in a store that
\* holds a point event and its customer.
C21_Witness ==
    /\ result.op = "earn"
    /\ result.status = "error"
    /\ result.code = 500
    /\ \E t \in TxIds : point_events[t].exists
    /\ \E cid \in CustomerIds : customers[cid].exists

\* The answer of a balance check carries a recomputed total.
HasRecomputed(res) == {"recomputed_balance", "balance_match"} \subseteq DOMAIN res

C23_EarnEffectsTogether ==
    [][\A t \in TxIds :
        (/\ point_events'[t] # point_events[t]
         /\ point_events'[t].exists
         /\ point_events'[t].status = "active")
            => LET cid == CustomerId(point_events'[t].customer_phone,
                                     point_events'[t].restaurant_id)
                   before == IF customers[cid].exists
                             THEN customers[cid].points_balance ELSE 0
               IN  /\ customers'[cid].exists
                   /\ customers'[cid].points_balance = before + point_events'[t].points]_vars

\* What the events fetched by a redeem can cover: the sum of their positive
\* remaining.
RECURSIVE CoveredBy(_)
CoveredBy(pes) ==
    IF pes = <<>> THEN 0
    ELSE (IF Head(pes).data.remaining > 0 THEN Head(pes).data.remaining ELSE 0)
            + CoveredBy(Tail(pes))

IsSynthetic(entry) == entry.point_event_id = "synthetic_balance_correction"

\* C24 (synthetic balance correction): when the events a redeem fetched cover
\* less than points_to_redeem while the cached balance covers it, the redeem
\* still succeeds, every fetched event with remaining > 0 is drained to 0, and
\* the last entry of consumed_events, and only the last, is
\* "synthetic_balance_correction" with used = the uncovered amount; when the
\* fetched events cover the amount, consumed_events has no synthetic entry.
C24_SyntheticCorrection ==
    [][\A p \in Workers :
        Commits(p) =>
            LET N == loc[p].points_to_redeem
                fetched == loc[p].point_events_to_update
                covered == CoveredBy(fetched)
                entries == redemptions'[result'.redemption_id].consumed_events
            IN /\ result'.status = "ok"
               /\ N <= loc[p].current_balance
               /\ IF covered < N
                  THEN /\ Len(entries) >= 1
                       /\ IsSynthetic(entries[Len(entries)])
                       /\ entries[Len(entries)].used = N - covered
                       /\ \A i \in 1..(Len(entries) - 1) : ~IsSynthetic(entries[i])
                       /\ \A i \in 1..Len(fetched) :
                            fetched[i].data.remaining > 0
                                => /\ point_events'[fetched[i].id].remaining = 0
                                   /\ point_events'[fetched[i].id].status = "redeemed"
                  ELSE \A i \in 1..Len(entries) : ~IsSynthetic(entries[i])]_vars

\* A redeem has committed whose fetched events covered a part of the amount:
\* its record lists a drained event and then the synthetic entry.
C24_Witness ==
    /\ result.op = "redeem"
    /\ result.status = "ok"
    /\ LET entries == redemptions[result.redemption_id].consumed_events
       IN /\ Len(entries) >= 2
          /\ IsSynthetic(entries[Len(entries)])
          /\ point_events[TxOf(entries[1].point_event_id)].remaining = 0

\* C25 (redeem's event writes): when a redeem commits, every point event
\* listed in its consumed_events gets remaining = its remaining before the
\* commit minus the entry's used, and status redeemed exactly when that is 0 and
\* partial otherwise; every point event that is not listed is left as it was.
C25_RedeemEventWrites ==
    [][\A p \in Workers :
        Commits(p) =>
            LET entries == RealEntries(redemptions'[result'.redemption_id].consumed_events)
            IN \A t \in TxIds :
                IF \E i \in 1..Len(entries) : entries[i].point_event_id = PointEventId(t)
                THEN LET i == CHOOSE i \in 1..Len(entries) :
                                    entries[i].point_event_id = PointEventId(t)
                     IN /\ point_events'[t].remaining
                                = point_events[t].remaining - entries[i].used
                        /\ point_events'[t].status
                                = IF point_events'[t].remaining = 0
                                  THEN "redeemed" ELSE "partial"
                ELSE point_events'[t] = point_events[t]]_vars

\* A step of p's redeem attempt that writes to the store.
RedeemWrites(p) ==
    /\ pc[p] \in {"r_customer", "r_counter", "r_events", "r_commit"}
    /\ pc'[p] # pc[p]
    /\ store' # store

\* C26 (read before write in redeem): in every attempt of the redeem
\* transaction the customer, the counter and the point events are read before
\* anything is written, and all three reads are protected by the transaction:
\* an attempt writes only at its commit, and it commits only if the customer,
\* the counter and every point event it fetched are still as it read them (a
\* change to any of them makes the attempt abort and run again).
C26_ReadBeforeWrite ==
    [][\A p \in Workers :
        /\ RedeemWrites(p) => Commits(p)
        /\ Commits(p) =>
            LET L == loc[p]
                cid == CustomerId(L.customer_phone, L.restaurant_id)
            IN /\ customers[cid].exists
               /\ customers[cid].points_balance = L.current_balance
               /\ counter.exists = L.counter_exists
               /\ L.new_count = (IF counter.exists THEN counter.count + 1 ELSE 1)
               /\ \A i \in 1..Len(L.point_events_to_update) :
                    point_events[L.point_events_to_update[i].id]
                        = L.point_events_to_update[i].data]_vars

\* C27 (grant immutable, remaining never grows): over any sequence of
\* operations a point event that exists stays, its points value never changes,
\* and its remaining never increases from one state to the next.
C27_GrantImmutable ==
    [][\A t \in TxIds :
        point_events[t].exists
            => /\ point_events'[t].exists
               /\ point_events'[t].points = point_events[t].points
               /\ point_events'[t].remaining <= point_events[t].remaining]_vars

NameOf(doc) == IF doc.exists THEN doc.customer_name ELSE ""

\* C28 (display name is first-write-wins): once a customer has a non-empty
\* name no step of an earn, a redeem or a sweep changes it; a customer's name
\* is set only by the customer write of an earn that was given a non-empty
\* name, and to that name.
C28_NameFirstWriteWins ==
    [][\A cid \in CustomerIds :
        /\ NameOf(customers[cid]) # ""
            => NameOf(customers'[cid]) = NameOf(customers[cid])
        /\ NameOf(customers'[cid]) # NameOf(customers[cid])
            => \E p \in Workers :
                /\ pc[p] = "e_customer_put"
                /\ pc'[p] = "idle"
                /\ CustomerId(loc[p].customer_phone, loc[p].restaurant_id) = cid
                /\ loc[p].customer_name # ""
                /\ NameOf(customers'[cid]) = loc[p].customer_name]_vars

\* The point events that are due at now.
Due(now) == {t \in TxIds : point_events[t].exists /\ point_events[t].expires_at <= now}

\* t comes before u in the order of the sweep's query.
Precedes(t, u) ==
    \/ point_events[t].expires_at < point_events[u].expires_at
    \/ /\ point_events[t].expires_at = point_events[u].expires_at
       /\ t < u

\* The due events a run has been through: those up to its cursor.
Examined(L) ==
    IF ~L.last_doc.set THEN {}
    ELSE {t \in Due(L.now) :
            \/ point_events[t].expires_at < L.last_doc.expires_at
            \/ /\ point_events[t].expires_at = L.last_doc.expires_at
               /\ t <= L.last_doc.id}

\* C29 (the paging loop terminates and covers each due event once): with the
\* requests handled one after the other, every page a sweep reads holds the
\* next due events that the run has not been through yet, at most a page of
\* them, none skipped and none a second time; after a full page the cursor moves
\* past its last document, so that the events left shrink with every page; the
\* run ends on an empty page or on a page shorter than the page size, and when
\* it ends every event due at its now has been through exactly one page.
C29_PagingCoversOnce ==
    [][\A p \in Workers :
        /\ ReadsPage(p) =>
            LET L == loc[p]
                todo == Due(L.now) \ Examined(L)
            IN IF todo = {}
               THEN pc'[p] = "idle" /\ result'.status = "ok" /\ result'.op = "sweep"
               ELSE LET page == PageIds(loc'[p].docs)
                    IN /\ pc'[p] = "s_batch"
                       /\ Len(loc'[p].docs) = Min(PageSize, Cardinality(todo))
                       /\ Cardinality(page) = Len(loc'[p].docs)
                       /\ page \subseteq todo
                       /\ \A t \in page : \A u \in todo \ page : Precedes(t, u)
        /\ (pc[p] = "s_batch" /\ pc'[p] # "s_batch") =>
            LET L == loc[p]
                page == PageIds(L.docs)
            IN IF Len(L.docs) < PageSize
               THEN /\ pc'[p] = "idle" /\ result'.status = "ok" /\ result'.op = "sweep"
                    /\ Due(L.now) = Examined(L) \cup page
               ELSE /\ pc'[p] = "s_page"
                    /\ loc'[p].now = L.now
                    /\ Examined(loc'[p]) = Examined(L) \cup page
                    /\ Cardinality(Due(L.now) \ Examined(loc'[p]))
                            < Cardinality(Due(L.now) \ Examined(L))]_vars

\* A sweep went through a full page and then a short one: it expired more
\* events than a page holds.
C29_Witness ==
    /\ result.op = "sweep"
    /\ result.status = "ok"
    /\ result.expired > PageSize

\* total_points_earned - total_points_redeemed - points_balance of a customer
\* document; 0 for a customer that does not exist.
Gap(doc) ==
    IF doc.exists
    THEN doc.total_points_earned - doc.total_points_redeemed - doc.points_balance
    ELSE 0

\* C30 (aggregate counters bound the balance): with earn, redeem and sweep
\* requests handled one after the other, every customer's points_balance is at
\* most total_points_earned - total_points_redeemed in every state, and the two
\* sides are equal until an event of the customer is expired: the difference
\* starts at 0 and only a step that expires an event of the customer changes it.
C30_CountersBoundBalance ==
    [][\A cid \in CustomerIds :
        /\ Gap(customers[cid]) >= 0
        /\ Gap(customers'[cid]) >= 0
        /\ Gap(customers'[cid]) # Gap(customers[cid])
            => \E t \in TxIds :
                /\ OwnedBy(t, cid)
                /\ ~point_events[t].expired
                /\ point_events'[t].expired]_vars

\* A customer has earned and redeemed, an event of the customer has been
\* expired, and the balance is below earned minus redeemed.
C30_Witness ==
    \E cid \in CustomerIds :
        /\ customers[cid].exists
        /\ customers[cid].total_points_redeemed > 0
        /\ Gap(customers[cid]) > 0
        /\ \E t \in TxIds : OwnedBy(t, cid) /\ point_events[t].expired

\* C31 (earn never lowers a balance): every accepted earn leaves the
\* customer's points_balance and total_points_earned strictly greater than
\* they were before its customer write (0 for a customer that did not exist),
\* and the point event it created has points > 0.
C31_EarnRaisesBalance ==
    [][\A p \in Workers :
        (pc[p] = "e_customer_put" /\ pc'[p] = "idle") =>
            LET L == loc[p]
                cid == CustomerId(L.customer_phone, L.restaurant_id)
                old == customers[cid]
                new == customers'[cid]
            IN /\ result'.status = "ok"
               /\ new.exists
               /\ new.points_balance > (IF old.exists THEN old.points_balance ELSE 0)
               /\ new.total_points_earned
                    > (IF old.exists THEN old.total_points_earned ELSE 0)
               /\ point_events'[L.transaction_id].exists
               /\ point_events'[L.transaction_id].points > 0]_vars

\* C32 (past-due points are not spendable): a redeem that commits lists in
\* consumed_events, and takes points from, no point event whose expires_at is at
\* or before the time of the redemption, whether or not a sweep has expired it.
C32_PastDueNotSpendable ==
    [][\A p \in Workers :
        Commits(p) =>
            LET entries == RealEntries(redemptions'[result'.redemption_id].consumed_events)
            IN \A i \in 1..Len(entries) :
                point_events[TxOf(entries[i].point_event_id)].expires_at > clock]_vars

\* The customer's point events that are neither redeemed nor expired.
Spendable(phone, restaurant_id) ==
    {t \in TxIds : /\ point_events[t].exists
                   /\ point_events[t].customer_phone = phone
                   /\ point_events[t].restaurant_id = restaurant_id
                   /\ point_events[t].status \in {"active", "partial"}}

\* C32 (amended: only the sweep makes points unspendable): a redeem fetches
\* the customer's events by status alone, past-due ones included: when they are
\* at most the query limit it fetches exactly the events with status active or
\* partial; and its commit takes points only from events it fetched as active
\* or partial, not flagged expired, with remaining > 0, and that no sweep has
\* flagged expired since.  An event the sweep has expired is never consumed; a
\* past-due event the sweep has not reached yet is.
C32_SpendableUntilSwept ==
    [][\A p \in Workers :
        /\ Reads(p) =>
            LET live == Spendable(loc[p].customer_phone, loc[p].restaurant_id)
                fetched == PageIds(loc'[p].point_events_to_update)
            IN /\ fetched \subseteq live
               /\ Cardinality(live) <= QueryLimit => fetched = live
        /\ Commits(p) =>
            LET entries == RealEntries(redemptions'[result'.redemption_id].consumed_events)
                fetched == loc[p].point_events_to_update
            IN \A i \in 1..Len(entries) :
                LET t == TxOf(entries[i].point_event_id)
                IN /\ ~point_events[t].expired
                   /\ \E j \in 1..Len(fetched) :
                        /\ fetched[j].id = t
                        /\ fetched[j].data.status \in {"active", "partial"}
                        /\ ~fetched[j].data.expired
                        /\ fetched[j].data.remaining > 0]_vars

\* A redeem has committed that took points from an event that was past due
\* and that no sweep had expired.
C32_Witness ==
    /\ result.op = "redeem"
    /\ result.status = "ok"
    /\ LET entries == RealEntries(redemptions[result.redemption_id].consumed_events)
       IN \E i \in 1..Len(entries) :
            LET pe == point_events[TxOf(entries[i].point_event_id)]
            IN /\ pe.expires_at <= clock
               /\ ~pe.expired
               /\ pe.status \in {"partial", "redeemed"}

\* A step of the signup that p handles.
SignupActs(p) == pc[p] \in {"o_code", "o_create", "o_count"} /\ pc'[p] # pc[p]

\* C33 (onboarding never resets a ledger balance): in every interleaving of
\* signup messages with earn requests, the signup writes the customer document
\* only when no customer record exists for the phone and restaurant, and no
\* step of a signup changes an existing customer's points_balance,
\* total_points_earned or total_visits.
C33_SignupKeepsBalance ==
    [][\A p \in Workers :
        SignupActs(p) =>
            \A cid \in CustomerIds :
                /\ customers'[cid] # customers[cid] => ~customers[cid].exists
                /\ customers[cid].exists
                    => /\ customers'[cid].exists
                       /\ customers'[cid].points_balance = customers[cid].points_balance
                       /\ customers'[cid].total_points_earned
                            = customers[cid].total_points_earned
                       /\ customers'[cid].total_visits = customers[cid].total_visits]_vars

\* The failures after which send_text is said to try again.
Retryable(o) ==
    \/ o.kind \in {"timeout", "network"}
    \/ o.kind = "response" /\ (o.status_code >= 500 \/ o.status_code = 429)

Returns(p) == pc'[p] = "idle" /\ result'.op = "send"

\* C34 (outbound send retry policy): send_text makes at most 3 attempts and
\* always returns; an attempt answered with status 200 ends it with that
\* result, one answered with a 4xx other than 429 ends it with an error; it
\* tries again only after a 5xx, a 429, a timeout or a network error, and it
\* returns an error when the third attempt fails too.
C34_SendRetryPolicy ==
    [][\A p \in Workers : \A o \in Outcomes :
        Send_Attempt(p, o) =>
            /\ loc[p].attempt < 3
            /\ (o.kind = "response" /\ o.status_code = 200)
                    => Returns(p) /\ result'.status = "ok"
            /\ (o.kind = "response" /\ o.status_code \in 400..499 /\ o.status_code # 429)
                    => Returns(p) /\ result'.status = "error"
            /\ pc'[p] = "t_post" => Retryable(o) /\ loc'[p].attempt = loc[p].attempt + 1
            /\ loc[p].attempt = 2 => Returns(p)
            /\ (loc[p].attempt = 2 /\ Retryable(o)) => result'.status = "error"
            /\ Returns(p) => result'.status \in {"ok", "error"}]_vars

====
